---- MODULE Spec2Model ----
(***************************************************************************)
(* Model of the question-answering backend:                                *)
(*   - services/text_chunker.py  cross-page chunker (eager and streaming)  *)
(*   - routes/pdf.py             ingestion coordinator process_pdf_async   *)
(*   - routes/websocket_chat.py  ConnectionManager, result fan-out         *)
(*   - routes/chat.py, routes/websocket_chat.py  tiered resolver           *)
(* Each subsystem has its own specification over the shared variables; the *)
(* variables of the other subsystems stay at their initial value.          *)
(***************************************************************************)
EXTENDS Integers, Sequences, FiniteSets, TLC

VARIABLES
    \* ---- chunker (TextChunker instance and one generator object)
    pages_data,        \* list of pages: [page_number, tokens]
    chunk_size,        \* self.chunk_size
    chunk_overlap,     \* self.chunk_overlap
    gen,               \* frame of the streaming generator
    yielded,           \* chunks the consumer has received, in order
    windows,           \* every window the loop examined: [start, end, emitted]
    \* ---- ingestion coordinator (one call of process_pdf_async)
    file_content,      \* the uploaded PDF: per page, what reading it gives
    ing,               \* its frame: pc, chunk_batch, chunk_count and the two totals
    doc,               \* the persisted pdf_documents row
    milvus,            \* records held by the vector store, in insertion order
    embed_calls,       \* the batches handed to generate_embedding_for_batch
    failure,           \* the first failed embedding or insert, <<>> if none
    \* ---- connection manager, subscribers and the result channels
    handler,            \* per client: position of its websocket_chat coroutine
    active_connections, \* manager.active_connections, as the set of its keys
    pending_tasks,      \* manager.pending_tasks: task_id -> client_id, NoClient if absent
    subscriber,         \* per client: state of its subscribe_to_redis_results task
    inbox,              \* per client: messages its pubsub has received, oldest first
    sent,               \* per client: what send_json has written to its socket
    published,          \* per task_id: the publishes task_postrun made for it
    next_task,          \* the next message_id to be drawn
    queue,              \* the tasks apply_async accepted: [task_id, client_id]
    owner,              \* task_id -> client_id it was registered for, NoClient if never
    \* ---- resolver
    store,              \* graph nodes and edges, FAQs
    cache,              \* the Redis answer cache: key -> entry
    resolution,         \* the last resolution: entry point, question, lookups, response
    \* ---- Celery worker
    worker,             \* per task_id: state, request.retries, attempts, countdowns
    db_save             \* per task_id: the history save task_postrun started for it

chunkerVars == <<pages_data, chunk_size, chunk_overlap, gen, yielded, windows>>
ingestVars == <<file_content, ing, doc, milvus, embed_calls, failure>>

fanoutVars == <<handler, active_connections, pending_tasks, subscriber, inbox, sent,
                published, next_task, queue, owner>>
resolverVars == <<store, cache, resolution>>
workerVars == <<worker, db_save>>
chatVars == <<fanoutVars, resolverVars, workerVars>>

vars == <<chunkerVars, ingestVars, chatVars>>

(***************************************************************************)
(* Bounds of the model.                                                    *)
(***************************************************************************)
MaxPages == 2
MaxPageTokens == 2
MaxChunkSize == 3
MaxOverlap == 3
MaxScenarioTokens == 9
MaxScenarioChunk == 10
MaxScenarioOverlap == 2
MaxIngestPageTokens == 6
MaxIngestChunk == 2
MaxIngestOverlap == 1
MaxIngestPages == 3
MaxClients == 2
MaxTasks == 2
MaxNodes == 2
MaxFaqs == 1
\* result envelopes published for one task_id
MaxEnvelopes == 2
\* pages, and tokens of a page, of a document with empty pages
MaxSparsePages == 3
MaxSparsePageTokens == 1

(***************************************************************************)
(* Python helpers.                                                         *)
(***************************************************************************)
Min(a, b) == IF a < b THEN a ELSE b
Max(a, b) == IF a > b THEN a ELSE b

\* Python's index normalisation in a slice s[a:b] of a list of length n.
PyIndex(i, n) == IF i < 0 THEN Max(i + n, 0) ELSE Min(i, n)

\* s[a:b] of Python, a and b 0-based and possibly negative.
PySlice(s, a, b) ==
    LET lo == PyIndex(a, Len(s))
        hi == PyIndex(b, Len(s))
    IN  IF lo < hi THEN SubSeq(s, lo + 1, hi) ELSE <<>>

RECURSIVE SumLen(_, _)
\* number of tokens of the first k pages
SumLen(pages, k) == IF k = 0 THEN 0 ELSE SumLen(pages, k - 1) + Len(pages[k].tokens)

RECURSIVE Concat(_, _)
\* all_tokens after the first k pages were appended
Concat(pages, k) == IF k = 0 THEN <<>> ELSE Concat(pages, k - 1) \o pages[k].tokens

\* Token kinds: "x" decodes to visible text, "w" to whitespace only.
TokenKinds == {"x", "w"}

\* chunk_text.strip() is non-empty
NonBlank(text) == \E i \in 1..Len(text) : text[i] = "x"

(***************************************************************************)
(* Streaming chunker, text_chunker.py 237-306.                             *)
(***************************************************************************)
AllTokens(pages) == Concat(pages, Len(pages))

\* page_boundaries[i] (1-based i): offset at which page i starts
PageBoundary(pages, i) == SumLen(pages, i - 1)

NextBoundary(pages, i) ==
    IF i + 1 <= Len(pages) THEN PageBoundary(pages, i + 1) ELSE Len(AllTokens(pages))

\* a page is counted only when the window starts inside it
PageHitStartOnly(pages, i, start_idx, end_idx) ==
    PageBoundary(pages, i) <= start_idx /\ start_idx < NextBoundary(pages, i)

\* the page-detection loop, lines 282-286
PageHit(pages, i, start_idx, end_idx) ==
    start_idx < NextBoundary(pages, i) /\ end_idx > PageBoundary(pages, i)

RECURSIVE PagesInChunkUpTo(_, _, _, _)
PagesInChunkUpTo(pages, k, start_idx, end_idx) ==
    IF k = 0 THEN <<>>
    ELSE LET rest == PagesInChunkUpTo(pages, k - 1, start_idx, end_idx)
         IN  IF PageHit(pages, k, start_idx, end_idx)
             THEN Append(rest, pages[k].page_number)
             ELSE rest

PagesInChunk(pages, start_idx, end_idx) ==
    PagesInChunkUpTo(pages, Len(pages), start_idx, end_idx)

\* the dict built at lines 289-295
MakeChunk(pages, cs, start_idx, end_idx, chunk_index) ==
    LET chunk_tokens == PySlice(AllTokens(pages), start_idx, end_idx)
        pages_in_chunk == PagesInChunk(pages, start_idx, end_idx)
    IN  [text |-> chunk_tokens,
         chunk_index |-> chunk_index,
         page_numbers |-> pages_in_chunk,
         token_count |-> Len(chunk_tokens),
         spans_multiple_pages |-> Len(pages_in_chunk) > 1]

\* a safety bound of half the stream
MaxIterationsHalf(n) == n \div 2

\* max_iterations, line 268
MaxIterations(n) == n * 2

\* a window end that is not clipped to the stream
WindowEndUnclipped(start_idx, cs, n) == start_idx + cs

\* end_idx, line 277
WindowEnd(start_idx, cs, n) == Min(start_idx + cs, n)

\* every window is yielded, blank or not
StreamKeepAll(text) == TRUE

\* the test of line 288: the chunk is yielded
StreamKeep(text) == NonBlank(text)

\* the next window starts where the last one ended
NextStartNoOverlap(end_idx, co) == end_idx

\* start_idx of the next window, line 304
NextStart(end_idx, co) == end_idx - co

\* the frame of a generator that has not been started
NewGenerator ==
    [pc |-> "created", start_idx |-> 0, end_idx |-> 0, iteration |-> 0,
     chunk_index |-> 0, hit_bound |-> FALSE]

RECURSIVE StreamLoop(_, _, _, _, _)
\* The while loop from its test (line 270) to the next yield or to the end of
\* the generator. Returns the frame, the chunk yielded (a list of 0 or 1
\* chunks) and the windows examined on the way.
StreamLoop(pages, cs, co, g, wins) ==
    LET n == Len(AllTokens(pages)) IN
    IF ~(g.start_idx < n)
    THEN [g |-> [g EXCEPT !.pc = "done"], out |-> <<>>, wins |-> wins]
    ELSE
      LET iteration == g.iteration + 1 IN
      IF iteration > MaxIterations(n)
      THEN [g |-> [g EXCEPT !.pc = "done", !.iteration = iteration, !.hit_bound = TRUE],
            out |-> <<>>, wins |-> wins]
      ELSE
        LET end_idx == WindowEnd(g.start_idx, cs, n)
            chunk == MakeChunk(pages, cs, g.start_idx, end_idx, g.chunk_index)
            g1 == [g EXCEPT !.iteration = iteration, !.end_idx = end_idx]
            win == [start |-> g.start_idx, end |-> end_idx, emitted |-> StreamKeep(chunk.text)]
        IN  IF StreamKeep(chunk.text)
            THEN [g |-> [g1 EXCEPT !.pc = "suspended"], out |-> <<chunk>>,
                  wins |-> Append(wins, win)]
            ELSE IF end_idx >= n
                 THEN [g |-> [g1 EXCEPT !.pc = "done"], out |-> <<>>,
                       wins |-> Append(wins, win)]
                 ELSE StreamLoop(pages, cs, co,
                                 [g1 EXCEPT !.start_idx = NextStart(end_idx, co)],
                                 Append(wins, win))

\* next(generator): run the body from where it stands to the next yield.
Resume(pages, cs, co, g) ==
    IF g.pc = "created"
    THEN StreamLoop(pages, cs, co, [g EXCEPT !.pc = "running"], <<>>)
    ELSE \* resumes after the yield: lines 298-304
      LET g1 == [g EXCEPT !.chunk_index = g.chunk_index + 1, !.pc = "running"] IN
      IF g.end_idx >= Len(AllTokens(pages))
      THEN [g |-> [g1 EXCEPT !.pc = "done"], out |-> <<>>, wins |-> <<>>]
      ELSE StreamLoop(pages, cs, co, [g1 EXCEPT !.start_idx = NextStart(g.end_idx, co)], <<>>)

(***************************************************************************)
(* Eager chunker, text_chunker.py 165-235.                                 *)
(***************************************************************************)
EagerPageHit(pages, i, start_idx, end_idx) ==
    start_idx < NextBoundary(pages, i) /\ end_idx > PageBoundary(pages, i)

RECURSIVE EagerPagesUpTo(_, _, _, _)
EagerPagesUpTo(pages, k, start_idx, end_idx) ==
    IF k = 0 THEN <<>>
    ELSE LET rest == EagerPagesUpTo(pages, k - 1, start_idx, end_idx)
         IN  IF EagerPageHit(pages, k, start_idx, end_idx)
             THEN Append(rest, pages[k].page_number)
             ELSE rest

\* max_iterations, line 197
EagerMaxIterations(n) == n * 2

\* end_idx, line 206
EagerWindowEnd(start_idx, cs, n) == Min(start_idx + cs, n)

\* start_idx of the next window, line 232
EagerNextStart(end_idx, co) == end_idx - co

RECURSIVE EagerLoop(_, _, _, _, _, _, _)
EagerLoop(pages, cs, co, start_idx, iteration0, chunk_index, chunks) ==
    LET all_tokens == AllTokens(pages)
        n == Len(all_tokens)
    IN
    IF ~(start_idx < n) THEN chunks
    ELSE
      LET iteration == iteration0 + 1 IN
      IF iteration > EagerMaxIterations(n) THEN chunks
      ELSE
        LET end_idx == EagerWindowEnd(start_idx, cs, n)
            chunk_tokens == PySlice(all_tokens, start_idx, end_idx)
            pages_in_chunk == EagerPagesUpTo(pages, Len(pages), start_idx, end_idx)
            keep == NonBlank(chunk_tokens)
            chunks1 == IF keep
                       THEN Append(chunks,
                                [text |-> chunk_tokens,
                                 chunk_index |-> chunk_index,
                                 page_numbers |-> pages_in_chunk,
                                 token_count |-> Len(chunk_tokens),
                                 spans_multiple_pages |-> Len(pages_in_chunk) > 1])
                       ELSE chunks
            chunk_index1 == IF keep THEN chunk_index + 1 ELSE chunk_index
        IN  IF end_idx >= n THEN chunks1
            ELSE EagerLoop(pages, cs, co, EagerNextStart(end_idx, co), iteration,
                           chunk_index1, chunks1)

chunk_documents_with_cross_page_overlap(pages, cs, co) ==
    EagerLoop(pages, cs, co, 0, 0, 0, <<>>)

(***************************************************************************)
(* The chat side at rest: no connection, empty stores.                     *)
(***************************************************************************)
Clients == 1..MaxClients
NoClient == 0
Tasks == 1..MaxTasks

\* ConnectionManager.__init__, websocket_chat.py 24-26
NewManager ==
    /\ active_connections = {}
    /\ pending_tasks = [t \in Tasks |-> NoClient]

EmptyStore == [nodes |-> <<>>, edges |-> {}, faqs |-> <<>>]

NoResolution == <<>>

FanoutIdle ==
    /\ NewManager
    /\ handler = [c \in Clients |-> "new"]
    /\ subscriber = [c \in Clients |-> "none"]
    /\ inbox = [c \in Clients |-> <<>>]
    /\ sent = [c \in Clients |-> <<>>]
    /\ published = [t \in Tasks |-> <<>>]
    /\ next_task = 1
    /\ queue = {}
    /\ owner = [t \in Tasks |-> NoClient]

\* no task has reached a worker
NewWorker ==
    [t \in Tasks |-> [state |-> "none", retries |-> 0, attempts |-> 0, countdowns |-> <<>>]]

ChatIdle ==
    /\ FanoutIdle
    /\ worker = NewWorker
    /\ db_save = [t \in Tasks |-> "none"]
    /\ store = EmptyStore
    /\ cache = {}
    /\ resolution = NoResolution

(***************************************************************************)
(* The chunker specification: a consumer drains one generator lazily.      *)
(***************************************************************************)
RECURSIVE TokenSeqs(_)
\* all token lists of length at most k
TokenSeqs(k) ==
    IF k = 0 THEN {<<>>}
    ELSE LET shorter == TokenSeqs(k - 1)
         IN  shorter \cup {Append(s, t) : s \in {u \in shorter : Len(u) = k - 1}, t \in TokenKinds}

\* pages numbered 1..n in the order supplied
PageLists(maxPages, tokenSeqs) ==
    UNION {{[i \in 1..n |-> [page_number |-> i, tokens |-> f[i]]] :
                f \in [1..n -> tokenSeqs]} : n \in 1..maxPages}

\* the row create_pdf_document inserts, pdf.py 298-304
NewDocument ==
    [is_processed |-> 0, processing_status |-> "Pending processing", chunk_count |-> 0,
     embedding_count |-> 0]

\* the locals of process_pdf_async before its first statement
NewIngestion ==
    [pc |-> "start", chunk_batch |-> <<>>, chunk_count |-> 0,
     total_chunks_processed |-> 0, total_embeddings_inserted |-> 0]

IngestIdle ==
    /\ file_content = <<>>
    /\ ing = NewIngestion
    /\ doc = NewDocument
    /\ milvus = <<>>
    /\ embed_calls = <<>>
    /\ failure = <<>>

InitChunker ==
    /\ IngestIdle
    /\ ChatIdle
    /\ pages_data \in PageLists(MaxPages, TokenSeqs(MaxPageTokens))
    /\ chunk_size \in 1..MaxChunkSize
    /\ chunk_overlap \in 0..MaxOverlap
    /\ gen = NewGenerator
    /\ yielded = <<>>
    /\ windows = <<>>

\* the consumer calls next() on the generator
NextChunk ==
    /\ gen.pc \in {"created", "suspended"}
    /\ \E r \in {Resume(pages_data, chunk_size, chunk_overlap, gen)} :
           /\ gen' = r.g
           /\ yielded' = yielded \o r.out
           /\ windows' = windows \o r.wins
    /\ UNCHANGED <<pages_data, chunk_size, chunk_overlap>>
    /\ UNCHANGED <<ingestVars, chatVars>>

NextChunker == NextChunk

SpecChunker == InitChunker /\ [][NextChunker]_vars

(***************************************************************************)
(* The same consumer over two-page documents of visible tokens, with the   *)
(* larger windows of the end-to-end scenarios.                             *)
(***************************************************************************)
Visible(k) == [i \in 1..k |-> "x"]

TwoPages(a, b) ==
    <<[page_number |-> 1, tokens |-> Visible(a)],
      [page_number |-> 2, tokens |-> Visible(b)]>>

InitPages ==
    /\ IngestIdle
    /\ ChatIdle
    /\ \E a, b \in 0..MaxScenarioTokens : pages_data = TwoPages(a, b)
    /\ chunk_size \in 1..MaxScenarioChunk
    /\ chunk_overlap \in 0..MaxScenarioOverlap
    /\ gen = NewGenerator
    /\ yielded = <<>>
    /\ windows = <<>>

SpecPages == InitPages /\ [][NextChunker]_vars

(***************************************************************************)
(* The same consumer over documents of up to MaxSparsePages short pages,   *)
(* some of which may hold no token at all.                                 *)
(***************************************************************************)
InitSparsePages ==
    /\ IngestIdle
    /\ ChatIdle
    /\ pages_data \in PageLists(MaxSparsePages, TokenSeqs(MaxSparsePageTokens))
    /\ chunk_size \in 1..MaxChunkSize
    /\ chunk_overlap \in 0..MaxOverlap
    /\ gen = NewGenerator
    /\ yielded = <<>>
    /\ windows = <<>>

SpecSparsePages == InitSparsePages /\ [][NextChunker]_vars

(***************************************************************************)
(* Claims about the chunker.                                               *)
(***************************************************************************)
TotalTokens == Len(AllTokens(pages_data))

GenDone == gen.pc = "done"

PageNumbersOf(chunks) == [i \in 1..Len(chunks) |-> chunks[i].page_numbers]

EmittedWindows == SelectSeq(windows, LAMBDA w : w.emitted)

ScenarioA ==
    /\ chunk_size = 10
    /\ chunk_overlap = 2
    /\ pages_data = TwoPages(6, 9)

\* C4 as stated: scenario A (chunk_size 10, overlap 2, pages of 6 and 9
\* tokens) yields three chunks with page_numbers [1], [1, 2], [2].
C4_ThreeChunks ==
    (ScenarioA /\ GenDone) => PageNumbersOf(yielded) = << <<1>>, <<1, 2>>, <<2>> >>

\* C4 amended: scenario A yields exactly two chunks: the window [0, 10) with
\* page_numbers [1, 2] and 10 tokens, then the window [8, 15) with
\* page_numbers [2] and 7 tokens; no chunk has page_numbers [1] alone.
C4_TwoChunks ==
    (ScenarioA /\ GenDone) =>
        /\ PageNumbersOf(yielded) = << <<1, 2>>, <<2>> >>
        /\ windows = << [start |-> 0, end |-> 10, emitted |-> TRUE],
                        [start |-> 8, end |-> 15, emitted |-> TRUE] >>
        /\ yielded[1].token_count = 10 /\ yielded[1].spans_multiple_pages
        /\ yielded[2].token_count = 7 /\ ~yielded[2].spans_multiple_pages
        /\ yielded[1].chunk_index = 0 /\ yielded[2].chunk_index = 1

C4_Witness == ScenarioA /\ GenDone /\ Len(yielded) = 2

\* C5 as stated, for chunk_overlap < chunk_size and at least one chunk: every
\* token_count is at most chunk_size, each emitted chunk starts at the end of
\* the chunk emitted before it minus chunk_overlap, and exactly one emitted
\* chunk, the last, ends at the total token count.
C5_EmittedChunksAdjacent ==
    (GenDone /\ chunk_overlap < chunk_size /\ Len(yielded) >= 1) =>
        LET E == EmittedWindows IN
        /\ \A i \in 1..Len(yielded) : yielded[i].token_count <= chunk_size
        /\ \A i \in 1..(Len(E) - 1) : E[i + 1].start = E[i].end - chunk_overlap
        /\ Cardinality({i \in 1..Len(E) : E[i].end = TotalTokens}) = 1
        /\ E[Len(E)].end = TotalTokens

\* C5 amended: every token_count is at most chunk_size; every window the
\* loop examines, emitted or dropped as whitespace-only, starts at the end of
\* the window before it minus chunk_overlap; the emitted chunks are the
\* non-blank windows in order; and for chunk_overlap < chunk_size and a
\* non-empty stream exactly one examined window, the last, ends at the total
\* token count.
C5_WindowsAdjacent ==
    /\ \A i \in 1..Len(yielded) : yielded[i].token_count <= chunk_size
    /\ \A i \in 1..(Len(windows) - 1) :
            windows[i + 1].start = windows[i].end - chunk_overlap
    /\ Len(EmittedWindows) = Len(yielded)
    /\ \A i \in 1..Len(yielded) :
            /\ yielded[i].chunk_index = i - 1
            /\ yielded[i].text =
                   PySlice(AllTokens(pages_data), EmittedWindows[i].start, EmittedWindows[i].end)
    /\ (GenDone /\ chunk_overlap < chunk_size /\ TotalTokens >= 1) =>
            /\ Cardinality({i \in 1..Len(windows) : windows[i].end = TotalTokens}) = 1
            /\ windows[Len(windows)].end = TotalTokens

\* a whitespace-only window was dropped between two emitted chunks
C5_Witness ==
    /\ GenDone /\ chunk_overlap < chunk_size
    /\ Len(yielded) >= 2
    /\ Len(windows) > Len(yielded)
    /\ \E i \in 2..(Len(windows) - 1) : ~windows[i].emitted

\* C6: for N >= 1 and chunk_overlap < chunk_size the loop ends without
\* reaching the 2 * N bound (it runs at most N iterations), the first window
\* starts at 0, each window starts no later than the end of the one before
\* it, and the last window ends at N.
C6_TerminatesAndCovers ==
    (chunk_overlap < chunk_size /\ TotalTokens >= 1) =>
        /\ ~gen.hit_bound
        /\ gen.iteration <= TotalTokens
        /\ Len(windows) >= 1 => windows[1].start = 0
        /\ \A i \in 1..(Len(windows) - 1) :
                /\ windows[i + 1].start <= windows[i].end
                /\ windows[i + 1].start > windows[i].start
                /\ windows[i + 1].end > windows[i].end
        /\ GenDone => (Len(windows) >= 1 /\ windows[Len(windows)].end = TotalTokens)

C6_Witness ==
    /\ GenDone /\ chunk_overlap < chunk_size /\ chunk_overlap >= 1
    /\ Len(windows) >= 3

\* the pages whose token range [boundary, next_boundary) intersects [s, e)
PagesMeeting(s, e) ==
    {i \in 1..Len(pages_data) :
        \E t \in PageBoundary(pages_data, i)..(NextBoundary(pages_data, i) - 1) :
            s <= t /\ t < e}

Ascending(q) == \A i \in 1..(Len(q) - 1) : q[i] < q[i + 1]

\* C7: the page_numbers of every emitted chunk holds every page whose token
\* range intersects the chunk's window, in ascending order.
C7_PagesCovered ==
    \A i \in 1..Len(yielded) :
        LET w == EmittedWindows[i] IN
        /\ \A p \in PagesMeeting(w.start, w.end) :
               \E j \in 1..Len(yielded[i].page_numbers) :
                   yielded[i].page_numbers[j] = pages_data[p].page_number
        /\ Ascending(yielded[i].page_numbers)

C7_Witness ==
    \E i \in 1..Len(yielded) :
        /\ Cardinality(PagesMeeting(EmittedWindows[i].start, EmittedWindows[i].end)) = 2
        /\ Len(yielded[i].page_numbers) = 2

\* C8: once the generator is exhausted, the chunks received by draining it
\* one at a time are the list the eager method returns: same text,
\* page_numbers, token_count, chunk_index and spans_multiple_pages, same order.
C8_LazyEqualsEager ==
    GenDone =>
        yielded = chunk_documents_with_cross_page_overlap(pages_data, chunk_size, chunk_overlap)

C8_Witness ==
    /\ GenDone
    /\ Len(yielded) >= 2
    /\ \E i \in 1..Len(windows) : ~windows[i].emitted
    /\ \E i \in 1..Len(yielded) : yielded[i].spans_multiple_pages

(***************************************************************************)
(* Ingestion coordinator, routes/pdf.py process_pdf_async 44-243.          *)
(***************************************************************************)
BatchSize == 5

\* update_pdf_processing_status(pdf_id, -1, error_msg), hasura_client.py 751-783
FailDocument(d, error_msg) ==
    [d EXCEPT !.is_processed = -1, !.processing_status = error_msg]

\* update_pdf_processing_status(pdf_id, 1, message): counts are left alone
MarkProcessing(d, message) ==
    [d EXCEPT !.is_processed = 1, !.processing_status = message]

\* update_pdf_processing_status with chunk_count and embedding_count given
WriteCounts(d, status, message, chunks, embeddings) ==
    [d EXCEPT !.is_processed = status, !.processing_status = message,
              !.chunk_count = chunks, !.embedding_count = embeddings]

\* the records of a batch, last chunk first
EmbeddingsDataReversed(chunk_batch) ==
    [i \in 1..Len(chunk_batch) |->
        [text_chunk |-> chunk_batch[Len(chunk_batch) + 1 - i].text,
         page_number |-> 1,
         chunk_index |-> chunk_batch[Len(chunk_batch) + 1 - i].chunk_index,
         token_count |-> chunk_batch[Len(chunk_batch) + 1 - i].token_count]]

\* the embeddings_data list of lines 146-155 and 199-208
EmbeddingsData(chunk_batch) ==
    [i \in 1..Len(chunk_batch) |->
        [text_chunk |-> chunk_batch[i].text,
         page_number |-> IF chunk_batch[i].page_numbers # <<>>
                         THEN chunk_batch[i].page_numbers[1] ELSE 1,
         chunk_index |-> chunk_batch[i].chunk_index,
         token_count |-> chunk_batch[i].token_count]]

\* the totals are overwritten by the size of the last batch
AddToTotalsAssign(i, inserted_count, batch_len) ==
    [i EXCEPT !.total_embeddings_inserted = inserted_count,
              !.total_chunks_processed = batch_len]

\* lines 161-162 and 213-214
AddToTotals(i, inserted_count, batch_len) ==
    [i EXCEPT !.total_embeddings_inserted = i.total_embeddings_inserted + inserted_count,
              !.total_chunks_processed = i.total_chunks_processed + batch_len]

\* what the embedding call and insert_embeddings (milvus_service.py 111-199)
\* can do: both raise on error, and the insert can raise before
\* collection.insert or after it, at the flush
BatchOutcomes == {"ok", "embed_fails", "insert_fails", "flush_fails"}

\* after a failed batch the loop goes on with an empty batch
AfterBatchFailureContinue(i) == [i EXCEPT !.chunk_batch = <<>>]

\* the return after a failed embedding or insert, lines 143, 168, 197, 220
AfterBatchFailure(i) == [i EXCEPT !.pc = "done"]

\* Embedding and insertion of one batch, lines 133-168 and 188-220.
\* `last` tells the final partial batch from a full one.
ProcessBatch(i, outcome, last) ==
    LET batch_no == Len(embed_calls) + 1 IN
    /\ embed_calls' = Append(embed_calls,
                            [k \in 1..Len(i.chunk_batch) |-> i.chunk_batch[k].chunk_index])
    /\ IF outcome = "embed_fails"
       THEN /\ doc' = FailDocument(doc, IF last
                                        THEN "Failed to generate embeddings for final batch"
                                        ELSE "Failed to generate embeddings for batch")
            /\ ing' = AfterBatchFailure(i)
            /\ failure' = IF failure = <<>>
                          THEN <<[step |-> "embedding", batch |-> batch_no,
                                  stored |-> milvus, embedded |-> embed_calls']>>
                          ELSE failure
            /\ UNCHANGED milvus
       ELSE IF outcome \in {"insert_fails", "flush_fails"}
       THEN /\ doc' = FailDocument(doc, "Failed to insert embeddings into Milvus")
            /\ ing' = AfterBatchFailure(i)
            /\ milvus' = IF outcome = "flush_fails"
                         THEN milvus \o EmbeddingsData(i.chunk_batch)
                         ELSE milvus
            /\ failure' = IF failure = <<>>
                          THEN <<[step |-> "insert", batch |-> batch_no,
                                  stored |-> milvus', embedded |-> embed_calls']>>
                          ELSE failure
       ELSE LET data == EmbeddingsData(i.chunk_batch)
                i1 == AddToTotals(i, Len(data), Len(i.chunk_batch))
            IN  /\ milvus' = milvus \o data
                /\ UNCHANGED failure
                /\ IF last
                   THEN /\ ing' = [i1 EXCEPT !.pc = "complete"]
                        /\ UNCHANGED doc
                   ELSE /\ ing' = [i1 EXCEPT !.chunk_batch = <<>>]
                        /\ doc' = WriteCounts(doc, 1, "Processed chunks, inserted embeddings...",
                                              i1.total_chunks_processed,
                                              i1.total_embeddings_inserted)

\* What reading one page can give, pdf_processor.py 122-146: text, no text
\* (OCR found none, or failed and returned ""), or an exception.
PageOutcomes == {"text", "empty", "raises"}

\* the page is appended, with its own number, only if it gave text
ExtractPageKeepAll(page, page_num) ==
    <<[page_number |-> page_num, tokens |-> page.tokens]>>

ExtractPage(page, page_num) ==
    IF page.outcome = "text" /\ page.tokens # <<>>
    THEN <<[page_number |-> page_num, tokens |-> page.tokens]>>
    ELSE <<>>

RECURSIVE ExtractUpTo(_, _)
ExtractUpTo(content, k) ==
    IF k = 0 THEN <<>>
    ELSE ExtractUpTo(content, k - 1) \o ExtractPage(content[k], k)

\* PDFProcessor.extract_text_with_pages, pdf_processor.py 101-153
extract_text_with_pages(content) == ExtractUpTo(content, Len(content))

\* lines 56-68: the status goes to processing and the text is extracted
Extract ==
    /\ ing.pc = "start"
    /\ pages_data' = extract_text_with_pages(file_content)
    /\ IF pages_data' = <<>>
       THEN /\ doc' = FailDocument(doc, "Failed: No text could be extracted from PDF")
            /\ ing' = [ing EXCEPT !.pc = "done"]
       ELSE /\ doc' = MarkProcessing(doc, "Extracting text from PDF...")
            /\ ing' = [ing EXCEPT !.pc = "milvus"]
    /\ UNCHANGED <<chunk_size, chunk_overlap, gen, yielded, windows>>
    /\ UNCHANGED <<file_content, milvus, embed_calls, failure, chatVars>>

\* lines 70-111: connect to Milvus, create the collection, build the chunker
InitMilvus(outcome) ==
    /\ ing.pc = "milvus"
    /\ IF outcome = "connect_fails"
       THEN /\ doc' = FailDocument(doc, "Failed to connect to Milvus")
            /\ ing' = [ing EXCEPT !.pc = "done"]
       ELSE IF outcome = "create_fails"
       THEN /\ doc' = FailDocument(doc, "Failed to create Milvus collection")
            /\ ing' = [ing EXCEPT !.pc = "done"]
       ELSE /\ doc' = MarkProcessing(doc, "Chunking text and generating embeddings...")
            /\ ing' = [ing EXCEPT !.pc = "chunking"]
    /\ UNCHANGED <<chunkerVars, file_content, milvus, embed_calls, failure, chatVars>>

\* every chunk is a batch of its own
BatchFullAtOne(chunk_batch) == Len(chunk_batch) >= 1

\* the test of line 131
BatchFull(chunk_batch) == Len(chunk_batch) >= BatchSize

\* one turn of the for loop, lines 124-180: pull a chunk, and embed and
\* insert the batch once it holds BatchSize chunks
PullChunk(outcome) ==
    /\ ing.pc = "chunking"
    /\ \E r \in {Resume(pages_data, chunk_size, chunk_overlap, gen)} :
         /\ gen' = r.g
         /\ yielded' = yielded \o r.out
         /\ windows' = windows \o r.wins
         /\ IF r.out = <<>>
            THEN \* the generator is exhausted: line 182
                 /\ outcome = "ok"
                 /\ ing' = [ing EXCEPT !.pc = "final"]
                 /\ UNCHANGED <<doc, milvus, embed_calls, failure>>
            ELSE LET i1 == [ing EXCEPT !.chunk_count = ing.chunk_count + 1,
                                       !.chunk_batch = Append(ing.chunk_batch, r.out[1])]
                 IN  IF BatchFull(i1.chunk_batch)
                     THEN ProcessBatch(i1, outcome, FALSE)
                     ELSE /\ outcome = "ok"
                          /\ ing' = i1
                          /\ UNCHANGED <<doc, milvus, embed_calls, failure>>
    /\ UNCHANGED <<pages_data, chunk_size, chunk_overlap, file_content, chatVars>>

\* lines 184-220: the chunks left over after the loop
FinalBatch(outcome) ==
    /\ ing.pc = "final"
    /\ IF ing.chunk_batch # <<>>
       THEN ProcessBatch(ing, outcome, TRUE)
       ELSE /\ outcome = "ok"
            /\ ing' = [ing EXCEPT !.pc = "complete"]
            /\ UNCHANGED <<doc, milvus, embed_calls, failure>>
    /\ UNCHANGED <<chunkerVars, file_content, chatVars>>

\* lines 228-235
Complete ==
    /\ ing.pc = "complete"
    /\ doc' = WriteCounts(doc, 2, "Processing completed successfully",
                          ing.total_chunks_processed, ing.total_embeddings_inserted)
    /\ ing' = [ing EXCEPT !.pc = "done"]
    /\ UNCHANGED <<chunkerVars, file_content, milvus, embed_calls, failure, chatVars>>

\* the uploads: every page reads as text of a tokens, as no text, or fails
Uploads ==
    {[i \in 1..MaxIngestPages |-> [outcome |-> o[i],
                           tokens |-> IF o[i] = "text" THEN Visible(a) ELSE <<>>]] :
        o \in [1..MaxIngestPages -> PageOutcomes], a \in 1..MaxIngestPageTokens}

\* an upload and the configured chunker
InitIngest ==
    /\ file_content \in Uploads
    /\ ing = NewIngestion
    /\ doc = NewDocument
    /\ milvus = <<>>
    /\ embed_calls = <<>>
    /\ failure = <<>>
    /\ ChatIdle
    /\ pages_data = <<>>
    /\ chunk_size \in 1..MaxIngestChunk
    /\ chunk_overlap \in 0..MaxIngestOverlap
    /\ gen = NewGenerator
    /\ yielded = <<>>
    /\ windows = <<>>

NextIngest ==
    \/ Extract
    \/ \E o \in {"ok", "connect_fails", "create_fails"} : InitMilvus(o)
    \/ \E o \in BatchOutcomes : PullChunk(o)
    \/ \E o \in BatchOutcomes : FinalBatch(o)
    \/ Complete

SpecIngest == InitIngest /\ [][NextIngest]_vars

(***************************************************************************)
(* Claims about the ingestion coordinator.                                 *)
(***************************************************************************)
FailureMessages(step) ==
    IF step = "embedding"
    THEN {"Failed to generate embeddings for batch",
          "Failed to generate embeddings for final batch"}
    ELSE {"Failed to insert embeddings into Milvus"}

\* C9: once the embedding call or the insert of batch k has failed, the
\* ingestion has stopped, the document is failed with the message of the
\* failed step, no batch is embedded or inserted afterwards, and the records
\* of the batches before k are still in the vector store.
C9_FailureStopsIngestion ==
    failure # <<>> =>
        LET f == failure[1] IN
        /\ ing.pc = "done"
        /\ doc.is_processed = -1
        /\ doc.processing_status \in FailureMessages(f.step)
        /\ embed_calls = f.embedded
        /\ Len(embed_calls) = f.batch
        /\ milvus = f.stored
        /\ Len(milvus) \in {BatchSize * (f.batch - 1), Len(yielded)}
        /\ \A k \in 1..(BatchSize * (f.batch - 1)) :
              milvus[k].chunk_index = yielded[k].chunk_index

C9_Witness ==
    /\ failure # <<>>
    /\ failure[1].step = "insert"
    /\ failure[1].batch = 2
    /\ Len(milvus) = BatchSize

RECURSIVE SumSizes(_, _)
SumSizes(calls, k) == IF k = 0 THEN 0 ELSE SumSizes(calls, k - 1) + Len(calls[k])

\* C10: the persisted chunk_count and embedding_count never decrease; while
\* the loop runs, that is after every inserted full batch, they are the
\* number of chunks embedded and of records inserted so far; and a completed
\* document carries the number of chunks the chunker yielded.
C10_CountsFollowBatches ==
    /\ [][/\ doc'.chunk_count >= doc.chunk_count
          /\ doc'.embedding_count >= doc.embedding_count]_vars
    /\ [](ing.pc = "chunking" =>
            /\ doc.chunk_count = SumSizes(embed_calls, Len(embed_calls))
            /\ doc.embedding_count = Len(milvus)
            /\ doc.chunk_count = BatchSize * Len(embed_calls))
    /\ [](doc.is_processed = 2 =>
            /\ doc.chunk_count = Len(yielded)
            /\ doc.embedding_count = Len(yielded)
            /\ Len(milvus) = Len(yielded))

C10_Witness ==
    /\ doc.is_processed = 2
    /\ doc.chunk_count > 2 * BatchSize
    /\ doc.chunk_count % BatchSize # 0

\* the numbers of the pages of the upload that read as text
TextPageNumbers ==
    {i \in 1..Len(file_content) : file_content[i].outcome = "text"}

\* some page gave text and some page did not
PartlyExtractable ==
    /\ TextPageNumbers # {}
    /\ TextPageNumbers # 1..Len(file_content)

MilvusFailureMessages ==
    {"Failed to connect to Milvus", "Failed to create Milvus collection"}

\* C11: for an upload of which some pages fail or read as empty and at least
\* one gives text, extraction does not abort the ingestion; the chunker is
\* given exactly the pages that gave text, in order and under their original
\* numbers, so every chunk names such pages only; and when the vector store
\* is set up and no embedding or insert fails the document ends completed,
\* its chunk_count being the number of chunks of those pages.
C11_FailedPagesSkipped ==
    (PartlyExtractable /\ ing.pc # "start") =>
        /\ doc.processing_status # "Failed: No text could be extracted from PDF"
        /\ Len(pages_data) = Cardinality(TextPageNumbers)
        /\ \A k \in 1..Len(pages_data) :
              /\ pages_data[k].page_number \in TextPageNumbers
              /\ pages_data[k].tokens = file_content[pages_data[k].page_number].tokens
              /\ k > 1 => pages_data[k - 1].page_number < pages_data[k].page_number
        /\ \A k \in 1..Len(yielded) :
              \A j \in 1..Len(yielded[k].page_numbers) :
                  yielded[k].page_numbers[j] \in TextPageNumbers
        /\ (/\ ing.pc = "done"
            /\ failure = <<>>
            /\ doc.processing_status \notin MilvusFailureMessages) =>
               /\ doc.is_processed = 2
               /\ doc.chunk_count =
                     Len(chunk_documents_with_cross_page_overlap(pages_data, chunk_size,
                                                                 chunk_overlap))
               /\ doc.chunk_count > 0

\* pages 1 and 3 of a three-page upload whose page 2 fails, completed
C11_Witness ==
    /\ Len(file_content) = 3
    /\ file_content[2].outcome = "raises"
    /\ TextPageNumbers = {1, 3}
    /\ doc.is_processed = 2
    /\ doc.chunk_count > 1
    /\ \E k \in 1..Len(yielded) : yielded[k].page_numbers = <<1, 3>>

(***************************************************************************)
(* Stores queried by the resolver: services/hasura_client.py and           *)
(* services/redis_cache.py.  Node and FAQ ids are list positions, and a    *)
(* later position is a later created_at.                                   *)
(***************************************************************************)
NoNode == 0
NoFaq == 0

\* str.lower() on the letters used here
Lower(ch) == IF ch = "H" THEN "h" ELSE IF ch = "I" THEN "i" ELSE ch

LowerText(t) == [k \in 1..Len(t) |-> Lower(t[k])]

RECURSIVE Strip(_)
\* str.strip()
Strip(t) ==
    IF t = <<>> THEN t
    ELSE IF Head(t) = " " THEN Strip(Tail(t))
    ELSE IF t[Len(t)] = " " THEN Strip(SubSeq(t, 1, Len(t) - 1))
    ELSE t

Contains(t, p) == \E k \in 0..(Len(t) - Len(p)) : SubSeq(t, k + 1, k + Len(p)) = p

\* text _ilike "%q%": case-insensitive containment (the letters used here
\* hold no SQL wildcard)
ILike(text, q) == Contains(LowerText(text), LowerText(q))

RECURSIVE SortDesc(_)
SortDesc(S) ==
    IF S = {} THEN <<>>
    ELSE LET m == CHOOSE x \in S : \A y \in S : y <= x
         IN  <<m>> \o SortDesc(S \ {m})

RECURSIVE SortAsc(_)
SortAsc(S) ==
    IF S = {} THEN <<>>
    ELSE LET m == CHOOSE x \in S : \A y \in S : x <= y
         IN  <<m>> \o SortAsc(S \ {m})

\* where text _eq, order_by created_at desc, limit 1
get_node_by_text(s, text) ==
    LET hits == SortDesc({n \in 1..Len(s.nodes) : s.nodes[n] = text})
    IN  IF hits = <<>> THEN NoNode ELSE hits[1]

\* where text _ilike %text%, order_by created_at desc
search_nodes_by_text(s, text) ==
    SortDesc({n \in 1..Len(s.nodes) : ILike(s.nodes[n], text)})

\* targets of the edges leaving source_node_id, in row order
get_target_nodes(s, source_node_id) ==
    SortAsc({e[2] : e \in {d \in s.edges : d[1] = source_node_id}})

get_further_options(s, node_id) == get_target_nodes(s, node_id)

\* where question _eq, limit 1
search_faq_exact(s, question) ==
    LET hits == SortAsc({f \in 1..Len(s.faqs) : s.faqs[f] = question})
    IN  IF hits = <<>> THEN NoFaq ELSE hits[1]

\* where question _ilike %question%, order_by created_at desc
search_faq_partial(s, question) ==
    SortDesc({f \in 1..Len(s.faqs) : ILike(s.faqs[f], question)})

\* the fields of FAQ row f that the resolver copies; the answer and the
\* category of a row are values of that row only
FaqRow(s, f) ==
    [id |-> f, question |-> s.faqs[f], answer |-> <<"answer", f>>,
     category |-> <<"category", f>>]

\* the collaborators whose calls can fail during a resolution
Faults == {{}, {"cache"}, {"faq"}}

\* RedisCache._get_cache_key, without the constant "faq:" prefix
get_cache_key(question) == LowerText(Strip(question))

\* RedisCache.get: the entries stored under the question's key; nothing when
\* Redis is not connected or the read raises (lines 66-68 and 81-83)
CacheGet(ca, question, faults) ==
    IF "cache" \in faults THEN {}
    ELSE {e \in ca : e.key = get_cache_key(question)}

\* RedisCache.set: setex overwrites the key; nothing is written when Redis
\* is not connected or the write raises (lines 97-99 and 112-114)
CacheSet(ca, question, answer_data, faults) ==
    IF "cache" \in faults THEN ca
    ELSE {e \in ca : e.key # get_cache_key(question)}
            \cup {[key |-> get_cache_key(question), data |-> answer_data]}

(***************************************************************************)
(* The resolver: routes/websocket_chat.py process_chat_message and         *)
(* routes/chat.py chat.  A resolution is computed as one step; its result  *)
(* carries the lookups it made, in order.                                  *)
(***************************************************************************)
RECURSIVE AllTargets(_, _)
\* lines 159-162: the targets of every matching source, concatenated
AllTargets(s, sources) ==
    IF sources = <<>> THEN <<>>
    ELSE get_target_nodes(s, Head(sources)) \o AllTargets(s, Tail(sources))

RECURSIVE Unique(_, _)
\* lines 165-170: duplicates removed, first occurrence kept
Unique(nodes, seen) ==
    IF nodes = <<>> THEN <<>>
    ELSE IF Head(nodes) \in seen THEN Unique(Tail(nodes), seen)
    ELSE <<Head(nodes)>> \o Unique(Tail(nodes), seen \cup {Head(nodes)})

NoAnswer == <<>>

Response(success, source, status, answers, faq_id, from_cache, task_id) ==
    [success |-> success, source |-> source, status |-> status, answers |-> answers,
     faq_id |-> faq_id, from_cache |-> from_cache, task_id |-> task_id,
     answer |-> NoAnswer, category |-> NoAnswer]

\* what is cached for an FAQ row, lines 263-268
FaqData(row) ==
    [answer |-> row.answer, source |-> "faq", faq_id |-> row.id, category |-> row.category]

\* response_data of the cache tier (223-231) and of the FAQ tier (254-261)
FaqResponse(data, from_cache) ==
    [Response(TRUE, data.source, "answered", <<>>, data.faq_id, from_cache, 0)
        EXCEPT !.answer = data.answer, !.category = data.category]

\* the outer except of process_chat_message, lines 395-401
ErrorResponse == Response(FALSE, "error", "error", <<>>, NoFaq, FALSE, 0)

\* the outer except of chat, routes/chat.py 442-447
Http500 == Response(FALSE, "error", "http_500", <<>>, NoFaq, FALSE, 0)

\* response_data of the graph tier, lines 121-136 and 183-198
GraphResponse(target_nodes) ==
    Response(TRUE, "knowledge_graph", "answered", target_nodes, NoFaq, FALSE, 0)

\* add_chat_message is called only with a session and a user, lines 139, 201, 234, 273
SavedIf(identified, source) == IF identified THEN <<source>> ELSE <<>>

Outcome(response, lookups, ca, pt, saved, drawn, submitted) ==
    [response |-> response, lookups |-> lookups, cache |-> ca, pending_tasks |-> pt,
     saved |-> saved, drawn |-> drawn, submitted |-> submitted]

\* the hand-off registers nothing
RegisterNothing(pt, task_id, client_id) == pt

\* ConnectionManager.register_pending_task, lines 47-49
register_pending_task(pt, task_id, client_id) == [pt EXCEPT ![task_id] = client_id]

\* what the vector search and apply_async can do
SearchOutcomes == {"no_collection", "none", "some"}
SubmitOutcomes == {"queued", "raises"}

\* Step 4, lines 289-401: both branches of line 316 register and submit
RagHandOff(ca, pt, lookups, client_id, search, submit, message_id) ==
    IF search = "no_collection"
    THEN Outcome(Response(FALSE, "rag", "no_documents", <<>>, NoFaq, FALSE, 0),
                 lookups, ca, pt, <<>>, FALSE, FALSE)
    ELSE LET pt1 == IF client_id # NoClient
                    THEN register_pending_task(pt, message_id, client_id)
                    ELSE pt
         IN  IF submit = "queued"
             THEN Outcome(Response(TRUE, "rag", "processing", <<>>, NoFaq, FALSE, message_id),
                          lookups, ca, pt1, <<>>, TRUE, TRUE)
             ELSE Outcome(ErrorResponse, lookups, ca, pt1, <<>>, TRUE, FALSE)

\* process_chat_message(question, user_id, session_id, client_id), lines 85-401
process_chat_message(s, ca, pt, question, identified, client_id, search, submit, message_id, faults) ==
    LET source_node == get_node_by_text(s, question)
        target_nodes == IF source_node # NoNode
                        THEN get_target_nodes(s, source_node) ELSE <<>>
        matching_nodes == search_nodes_by_text(s, question)
        unique_targets == Unique(AllTargets(s, matching_nodes), {})
        cached_answer == CacheGet(ca, question, faults)
        faqs == search_faq_partial(s, question)
    IN  IF target_nodes # <<>>
        THEN Outcome(GraphResponse(target_nodes), <<"graph_exact">>, ca, pt,
                     SavedIf(identified, "knowledge_graph"), FALSE, FALSE)
        ELSE IF unique_targets # <<>>
        THEN Outcome(GraphResponse(unique_targets), <<"graph_exact", "graph_fuzzy">>, ca, pt,
                     SavedIf(identified, "knowledge_graph"), FALSE, FALSE)
        ELSE IF cached_answer # {}
        THEN LET data == (CHOOSE e \in cached_answer : TRUE).data
             IN  Outcome(FaqResponse(data, TRUE),
                         <<"graph_exact", "graph_fuzzy", "cache">>, ca, pt,
                         SavedIf(identified, data.source), FALSE, FALSE)
        ELSE IF "faq" \in faults
        THEN \* search_faq_partial raises; line 251 is inside the outer try only
             Outcome(ErrorResponse, <<"graph_exact", "graph_fuzzy", "cache", "faq_partial">>,
                     ca, pt, <<>>, FALSE, FALSE)
        ELSE IF faqs # <<>>
        THEN LET best_faq == FaqRow(s, faqs[1])
             IN  Outcome(FaqResponse(FaqData(best_faq), FALSE),
                         <<"graph_exact", "graph_fuzzy", "cache", "faq_partial">>,
                         CacheSet(ca, question, FaqData(best_faq), faults),
                         pt, SavedIf(identified, "faq"), FALSE, FALSE)
        ELSE RagHandOff(ca, pt,
                        <<"graph_exact", "graph_fuzzy", "cache", "faq_partial", "vector_search">>,
                        client_id, search, submit, message_id)

\* the fields ChatRequest declares, schemas.py 143-146 (the later of the two
\* definitions is the one routes/chat.py imports)
ChatRequestFields == {"question", "workflow_id"}

\* the RAG tier of chat, lines 320-440: the completion runs on the request path
RestRag(ca, pt, lookups, identified, search) ==
    IF search # "some"
    THEN Outcome(Response(FALSE, "rag", "not_found", <<>>, NoFaq, FALSE, 0),
                 lookups, ca, pt, <<>>, FALSE, FALSE)
    ELSE Outcome(Response(TRUE, "rag", "answered", <<>>, NoFaq, FALSE, 0),
                 lookups \o <<"llm">>, ca, pt, SavedIf(identified, "rag"), FALSE, FALSE)

\* chat(request), routes/chat.py 19-447.  Line 37 reads request.session_id,
\* which ChatRequest does not declare: the AttributeError is caught at 442
\* and answered with HTTP 500 before any tier is consulted.
chat(s, ca, pt, question, identified, search, faults) ==
    LET source_node == get_node_by_text(s, question)
        target_nodes == IF source_node # NoNode
                        THEN get_target_nodes(s, source_node) ELSE <<>>
        matching_nodes == search_nodes_by_text(s, question)
        unique_targets == Unique(AllTargets(s, matching_nodes), {})
        cached_answer == CacheGet(ca, question, faults)
        faq_exact == search_faq_exact(s, question)
        faq_partial == search_faq_partial(s, question)
    IN  IF "session_id" \notin ChatRequestFields
        THEN Outcome(Http500, <<>>, ca, pt, <<>>, FALSE, FALSE)
        ELSE IF target_nodes # <<>>
        THEN Outcome(GraphResponse(target_nodes), <<"graph_exact">>, ca, pt,
                     SavedIf(identified, "knowledge_graph"), FALSE, FALSE)
        ELSE IF unique_targets # <<>>
        THEN Outcome(GraphResponse(unique_targets), <<"graph_exact", "graph_fuzzy">>, ca, pt,
                     SavedIf(identified, "knowledge_graph"), FALSE, FALSE)
        ELSE IF cached_answer # {}
        THEN LET data == (CHOOSE e \in cached_answer : TRUE).data
             IN  Outcome(FaqResponse(data, TRUE),
                         <<"graph_exact", "graph_fuzzy", "cache">>, ca, pt,
                         SavedIf(identified, "faq_cache"), FALSE, FALSE)
        ELSE IF "faq" \in faults
        THEN \* search_faq_exact raises; line 223 is inside the outer try only
             Outcome(Http500, <<"graph_exact", "graph_fuzzy", "cache", "faq_exact">>,
                     ca, pt, <<>>, FALSE, FALSE)
        ELSE IF faq_exact # NoFaq
        THEN Outcome(FaqResponse(FaqData(FaqRow(s, faq_exact)), FALSE),
                     <<"graph_exact", "graph_fuzzy", "cache", "faq_exact">>,
                     CacheSet(ca, question, FaqData(FaqRow(s, faq_exact)), faults),
                     pt, SavedIf(identified, "faq"), FALSE, FALSE)
        ELSE IF faq_partial # <<>>
        THEN Outcome(FaqResponse(FaqData(FaqRow(s, faq_partial[1])), FALSE),
                     <<"graph_exact", "graph_fuzzy", "cache", "faq_exact", "faq_partial">>,
                     CacheSet(ca, question, FaqData(FaqRow(s, faq_partial[1])), faults),
                     pt, SavedIf(identified, "faq"), FALSE, FALSE)
        ELSE RestRag(ca, pt,
                     <<"graph_exact", "graph_fuzzy", "cache", "faq_exact", "faq_partial",
                       "vector_search">>,
                     identified, search)

\* what a resolution leaves behind in the manager, the cache and the queue
Applied(r, client_id) ==
    /\ cache' = r.cache
    /\ pending_tasks' = r.pending_tasks
    /\ next_task' = IF r.drawn THEN next_task + 1 ELSE next_task
    /\ queue' = IF r.submitted
                THEN queue \cup {[task_id |-> next_task, client_id |-> client_id]}
                ELSE queue
    /\ owner' = IF r.pending_tasks # pending_tasks
                THEN [owner EXCEPT ![next_task] = r.pending_tasks[next_task]]
                ELSE owner

\* a resolution requested directly, with what it returned
\* (search is what the vector search gave, "unused" if it was not reached)
Resolved(entry, question, identified, search, faults, r) ==
    /\ resolution' = <<[entry |-> entry, question |-> question, identified |-> identified,
                        faults |-> faults,
                        search |-> IF \E j \in 1..Len(r.lookups) : r.lookups[j] = "vector_search"
                                   THEN search ELSE "unused",
                        response |-> r.response, lookups |-> r.lookups, saved |-> r.saved,
                        drawn |-> r.drawn, submitted |-> r.submitted]>>
    /\ Applied(r, NoClient)

\* POST /api/chat
Chat(question, identified, search, faults) ==
    /\ \E r \in {chat(store, cache, pending_tasks, question, identified, search, faults)} :
           Resolved("rest", question, identified, search, faults, r)
    /\ UNCHANGED <<store, handler, active_connections, subscriber, inbox, sent, published>>
    /\ UNCHANGED <<chunkerVars, ingestVars, workerVars>>

\* process_chat_message called without a client_id (its default, line 85)
ProcessChatMessage(question, identified, search, submit, faults) ==
    /\ \E r \in {process_chat_message(store, cache, pending_tasks, question, identified,
                                      NoClient, search, submit, next_task, faults)} :
           /\ r.drawn => next_task <= MaxTasks
           /\ Resolved("ws", question, identified, search, faults, r)
    /\ UNCHANGED <<store, handler, active_connections, subscriber, inbox, sent, published>>
    /\ UNCHANGED <<chunkerVars, ingestVars, workerVars>>

(***************************************************************************)
(* The worker: tasks/llm_tasks.py generate_llm_answer_task, run by Celery. *)
(***************************************************************************)
MaxRetries == 2

\* the calls the task body makes, in order, lines 36, 37, 53 and 58
TaskCalls ==
    <<"LLMService()", "llm_service.generate_answer", "hasura_client.save_chat_message",
      "cache.set(ttl=)">>

\* every call of the body is taken to be one its collaborator offers
AcceptedCallsAll == {TaskCalls[k] : k \in 1..Len(TaskCalls)}

\* The calls of the body that its collaborators accept: LLMService.__init__
\* requires huggingface_token (llm_service.py 16-31) and the class has no
\* generate_answer, HasuraClient has no save_chat_message
\* (hasura_client.py 31-62), RedisCache.set has no ttl parameter
\* (redis_cache.py 85).
AcceptedCalls == {}

\* One run of the body, lines 28-70: it raises at the first call that is not
\* accepted; otherwise it writes the answer under "llm_answer:" + message_id
\* and returns a dict that holds no client_id (60-65).
generate_llm_answer_task(ca, message_id) ==
    IF \E k \in 1..Len(TaskCalls) : TaskCalls[k] \notin AcceptedCalls
    THEN [raised |-> TRUE, cache |-> ca, retval |-> <<>>]
    ELSE [raised |-> FALSE,
          cache |-> CacheSet(ca, <<"llm_answer:", ToString(message_id)>>,
                             [answer |-> <<"llm", message_id>>, source |-> "rag",
                              faq_id |-> NoFaq, category |-> NoAnswer], {}),
          retval |-> <<[status |-> "success", message_id |-> message_id,
                        client_id |-> NoClient]>>]

\* countdown=60 * (2 ** self.request.retries), line 70
Countdown(retries) == 60 * (2 ^ retries)

\* the retry goes on whatever the number of retries made
RetryAllowedAlways(retries) == TRUE

\* Task.retry: the task is sent again unless request.retries + 1 exceeds
\* max_retries (line 13), in which case the exception is raised
RetryAllowed(retries) == retries + 1 <= MaxRetries

\* task_postrun, celery_config.py 94-126, for the retval of this task: a
\* publish needs a dict retval that holds a client_id
PostrunPublishes(retval) == retval # <<>> /\ retval[1].client_id # NoClient

\* the worker runs a task it was sent: the first run or a retry that is due
Attempt(t) ==
    /\ \E e \in queue : e.task_id = t
    /\ worker[t].state \in {"none", "retry"}
    /\ worker[t].attempts <= MaxRetries + 1
    /\ \E run \in {generate_llm_answer_task(cache, t)} :
         /\ cache' = run.cache
         /\ worker' = [worker EXCEPT ![t] =
               IF ~run.raised
               THEN [@ EXCEPT !.state = "success", !.attempts = @ + 1]
               ELSE IF RetryAllowed(worker[t].retries)
               THEN [@ EXCEPT !.state = "retry", !.attempts = @ + 1,
                              !.retries = @ + 1,
                              !.countdowns = Append(@, Countdown(worker[t].retries))]
               ELSE [@ EXCEPT !.state = "failure", !.attempts = @ + 1]]
         /\ published' = IF PostrunPublishes(run.retval)
                         THEN [published EXCEPT ![t] =
                                 <<[client_id |-> run.retval[1].client_id,
                                    pending |-> pending_tasks[t],
                                    connected |-> run.retval[1].client_id \in active_connections,
                                    received |-> FALSE]>>]
                         ELSE published
         /\ db_save' = IF PostrunPublishes(run.retval)
                       THEN [db_save EXCEPT ![t] = "started"]
                       ELSE db_save
    /\ UNCHANGED <<store, resolution, handler, active_connections, pending_tasks, subscriber,
                   inbox, sent, next_task, queue, owner>>
    /\ UNCHANGED <<chunkerVars, ingestVars>>

\* the texts held by nodes and FAQs, and the questions asked
NodeTexts == {<<"H", "i">>}
FaqTexts == {<<"h", "i", "!">>}
Questions == {<<"h">>, <<"H", "i">>, <<"h", "i", " ">>, <<"h", "i", "!">>}

TextLists(texts, n) == UNION {[1..k -> texts] : k \in 0..n}

\* graphs whose edges lead from an older node to a newer one
Stores ==
    {[nodes |-> ns, edges |-> es, faqs |-> fs] :
        ns \in TextLists(NodeTexts, MaxNodes), fs \in TextLists(FaqTexts, MaxFaqs),
        es \in SUBSET {<<a, b>> : a \in 1..MaxNodes, b \in 1..MaxNodes}}

\* no document is being chunked
ChunkerIdle ==
    /\ pages_data = <<>>
    /\ chunk_size = 1
    /\ chunk_overlap = 0
    /\ gen = NewGenerator
    /\ yielded = <<>>
    /\ windows = <<>>

InitResolver ==
    /\ IngestIdle
    /\ ChunkerIdle
    /\ FanoutIdle
    /\ worker = NewWorker
    /\ db_save = [t \in Tasks |-> "none"]
    /\ store \in {st \in Stores : \A e \in st.edges : e[1] < e[2] /\ e[2] <= Len(st.nodes)}
    /\ cache = {}
    /\ resolution = NoResolution

NextResolver ==
    \/ \E q \in Questions, i \in BOOLEAN, se \in SearchOutcomes, f \in Faults :
          Chat(q, i, se, f)
    \/ \E q \in Questions, i \in BOOLEAN, se \in SearchOutcomes, su \in SubmitOutcomes,
          f \in Faults :
          ProcessChatMessage(q, i, se, su, f)

SpecResolver == InitResolver /\ [][NextResolver]_vars

(***************************************************************************)
(* The resolver together with the worker that runs the tasks it submits:   *)
(* identified requests, every lookup working.                              *)
(***************************************************************************)
NextWorker ==
    \/ \E q \in Questions, se \in SearchOutcomes : Chat(q, TRUE, se, {})
    \/ \E q \in Questions, se \in SearchOutcomes, su \in SubmitOutcomes :
          ProcessChatMessage(q, TRUE, se, su, {})
    \/ \E t \in Tasks : Attempt(t)

SpecWorker == InitResolver /\ [][NextWorker]_vars

(***************************************************************************)
(* Connections and result fan-out: routes/websocket_chat.py                *)
(* ConnectionManager and websocket_chat, celery_config.py task_postrun.    *)
(* A message published on a channel nobody is subscribed to is dropped by  *)
(* Redis.  send_json is taken to succeed while the connection is           *)
(* registered.                                                             *)
(***************************************************************************)
\* ConnectionManager.send_message, lines 43-45
send_message(ac, out, client_id, message) ==
    IF client_id \in ac THEN [out EXCEPT ![client_id] = Append(@, message)] ELSE out

Message(type, task_id) == [type |-> type, task_id |-> task_id]

\* disconnect leaves pending_tasks as it is
PurgePendingNone(pt, client_id) == pt

\* disconnect empties pending_tasks
PurgePendingAll(pt, client_id) == [t \in Tasks |-> NoClient]

\* ConnectionManager.disconnect, lines 38-41
PurgePending(pt, client_id) ==
    [t \in Tasks |-> IF pt[t] = client_id THEN NoClient ELSE pt[t]]

\* websocket_chat, lines 409-413: accept, register, start the subscriber task
Connect(c) ==
    /\ handler[c] = "new"
    /\ handler' = [handler EXCEPT ![c] = "open"]
    /\ active_connections' = active_connections \cup {c}
    /\ subscriber' = [subscriber EXCEPT ![c] = "created"]
    /\ UNCHANGED <<pending_tasks, inbox, sent, published, next_task, queue, owner>>
    /\ UNCHANGED <<resolverVars, chunkerVars, ingestVars, workerVars>>

\* subscribe_to_redis_results, lines 63-70: the coroutine reaches its
\* subscription, or fails and ends (lines 79-80)
Subscribe(c, ok) ==
    /\ subscriber[c] = "created"
    /\ subscriber' = [subscriber EXCEPT ![c] = IF ok THEN "subscribed" ELSE "failed"]
    /\ UNCHANGED <<handler, active_connections, pending_tasks, inbox, sent, published,
                   next_task, queue, owner>>
    /\ UNCHANGED <<resolverVars, chunkerVars, ingestVars, workerVars>>

\* the questions asked over a connection
SocketQuestions == {<<"h">>}

\* one turn of the handler loop, lines 416-446: acknowledge, resolve, respond
HandleQuestion(c, question, identified, search, submit, faults) ==
    /\ handler[c] = "open"
    /\ question # <<>>
    /\ next_task <= MaxTasks
    /\ \E r \in {process_chat_message(store, cache, pending_tasks, question, identified,
                                      c, search, submit, next_task, faults)} :
           /\ Applied(r, c)
           /\ sent' = send_message(active_connections,
                                   send_message(active_connections, sent, c,
                                                Message("processing", 0)),
                                   c, Message("response", r.response.task_id))
    /\ UNCHANGED <<store, resolution, handler, active_connections, subscriber, inbox,
                   published>>
    /\ UNCHANGED <<chunkerVars, ingestVars, workerVars>>

\* task_postrun(task_id, retval), celery_config.py 94-126, after a
\* successful run of a task the worker took from the queue; retval.client_id
\* is the client_id the task was submitted with (line 105 returns without it).
\* The signal fires after every run of the task; runs is the number of runs
\* the broker gives one task.  After the publish (line 126) the handler
\* starts the thread that saves the pair to chat history (lines 129-164).
TaskPostrun(task_id, client_id, runs) ==
    /\ [task_id |-> task_id, client_id |-> client_id] \in queue
    /\ client_id # NoClient
    /\ Len(published[task_id]) < runs
    /\ LET received == subscriber[client_id] = "subscribed"
       IN  /\ published' = [published EXCEPT ![task_id] =
                                Append(@, [client_id |-> client_id,
                                           pending |-> pending_tasks[task_id],
                                           connected |-> client_id \in active_connections,
                                           received |-> received])]
           /\ inbox' = IF received
                       THEN [inbox EXCEPT ![client_id] =
                                Append(@, Message("result", task_id))]
                       ELSE inbox
    /\ db_save' = [db_save EXCEPT ![task_id] = "started"]
    /\ UNCHANGED <<handler, active_connections, pending_tasks, subscriber, sent, next_task,
                   queue, owner, worker>>
    /\ UNCHANGED <<resolverVars, chunkerVars, ingestVars>>

\* save_to_db, celery_config.py 131-159, in its own thread: add_chat_message
\* with source 'rag' for a retval that holds session_id, user_id, message_id,
\* question and answer; a failure is logged (lines 158-159)
SaveToDb(task_id, ok) ==
    /\ db_save[task_id] = "started"
    /\ db_save' = [db_save EXCEPT ![task_id] = IF ok THEN "saved" ELSE "failed"]
    /\ UNCHANGED <<fanoutVars, resolverVars, chunkerVars, ingestVars, worker>>

\* line 76: the subscriber of client_id forwards to client_id
SubscriberTarget(client_id) == client_id

\* one message of the listen loop, lines 72-78
Deliver(c) ==
    /\ subscriber[c] = "subscribed"
    /\ inbox[c] # <<>>
    /\ inbox' = [inbox EXCEPT ![c] = Tail(@)]
    /\ sent' = send_message(active_connections, sent, SubscriberTarget(c), Head(inbox[c]))
    /\ UNCHANGED <<handler, active_connections, pending_tasks, subscriber, published,
                   next_task, queue, owner>>
    /\ UNCHANGED <<resolverVars, chunkerVars, ingestVars, workerVars>>

\* websocket_chat, lines 448-454: the subscriber is cancelled, then
\* manager.disconnect(client_id), lines 33-41
Disconnect(c) ==
    /\ handler[c] = "open"
    /\ handler' = [handler EXCEPT ![c] = "closed"]
    /\ subscriber' = [subscriber EXCEPT ![c] =
                        IF @ \in {"created", "subscribed"} THEN "cancelled" ELSE @]
    /\ inbox' = [inbox EXCEPT ![c] = <<>>]
    /\ active_connections' = active_connections \ {c}
    /\ pending_tasks' = PurgePending(pending_tasks, c)
    /\ UNCHANGED <<sent, published, next_task, queue, owner>>
    /\ UNCHANGED <<resolverVars, chunkerVars, ingestVars, workerVars>>

InitFanout ==
    /\ IngestIdle
    /\ ChunkerIdle
    /\ ChatIdle

NextFanout ==
    \/ \E c \in Clients : Connect(c)
    \/ \E c \in Clients, ok \in BOOLEAN : Subscribe(c, ok)
    \/ \E c \in Clients, q \in SocketQuestions, i \in BOOLEAN,
          se \in {"none", "some"}, su \in SubmitOutcomes :
          HandleQuestion(c, q, i, se, su, {})
    \/ \E t \in Tasks, c \in Clients : TaskPostrun(t, c, 1)
    \/ \E c \in Clients : Deliver(c)
    \/ \E c \in Clients : Disconnect(c)

SpecFanout == InitFanout /\ [][NextFanout]_vars

\* The event loop runs a subscriber coroutine that can proceed, to its
\* subscription and then message by message, and the worker finishes the
\* tasks it was given; what a client does is up to the client.
FanoutFairness ==
    /\ \A c \in Clients : WF_vars(\E ok \in BOOLEAN : Subscribe(c, ok))
    /\ \A c \in Clients : WF_vars(Deliver(c))
    /\ \A t \in Tasks : WF_vars(\E c \in Clients : TaskPostrun(t, c, 1))

SpecFanoutFair == SpecFanout /\ FanoutFairness

(***************************************************************************)
(* The same with the worker side in full: a broker that delivers a task at *)
(* least once, so that a task can run, and its result be published, up to  *)
(* MaxEnvelopes times, and the thread that saves the pair to chat history. *)
(***************************************************************************)
NextRedelivery ==
    \/ \E c \in Clients : Connect(c)
    \/ \E c \in Clients, ok \in BOOLEAN : Subscribe(c, ok)
    \/ \E c \in Clients, q \in SocketQuestions, i \in BOOLEAN,
          se \in {"none", "some"}, su \in SubmitOutcomes :
          HandleQuestion(c, q, i, se, su, {})
    \/ \E t \in Tasks, c \in Clients : TaskPostrun(t, c, MaxEnvelopes)
    \/ \E t \in Tasks, ok \in BOOLEAN : SaveToDb(t, ok)
    \/ \E c \in Clients : Deliver(c)
    \/ \E c \in Clients : Disconnect(c)

SpecRedelivery == InitFanout /\ [][NextRedelivery]_vars

(***************************************************************************)
(* Claims about connections and result fan-out.                            *)
(***************************************************************************)
Holds(q, message) == \E k \in 1..Len(q) : q[k] = message

C3_DisconnectPurgesPending ==
    \A c \in Clients : handler[c] = "closed" =>
        /\ c \notin active_connections
        /\ \A t \in Tasks : pending_tasks[t] # c
        /\ \A t \in Tasks : owner[t] = c =>
              /\ pending_tasks[t] = NoClient
              /\ (published[t] # <<>> /\ ~published[t][1].connected) =>
                    /\ ~published[t][1].received
                    /\ \A d \in Clients :
                          /\ ~Holds(sent[d], Message("result", t))
                          /\ ~Holds(inbox[d], Message("result", t))

C3_Witness ==
    \E t \in Tasks, c \in Clients, d \in Clients :
        /\ d # c
        /\ owner[t] = c
        /\ handler[c] = "closed"
        /\ published[t] # <<>>
        /\ ~published[t][1].connected
        /\ handler[d] = "open"
        /\ subscriber[d] = "subscribed"

(***************************************************************************)
(* Claims about the resolver.                                              *)
(***************************************************************************)
\* some node matching the question, exactly or by containment, has a target
GraphYieldsTargets(question) ==
    \E e \in store.edges : ILike(store.nodes[e[1]], question)

FaqMatches(question) ==
    \E f \in 1..Len(store.faqs) : ILike(store.faqs[f], question)

\* C1: a resolution, by chat or by process_chat_message, of a question for
\* which the graph tier yields target nodes and an FAQ matches as well
\* returns the knowledge_graph answer, having made no cache and no FAQ lookup.
C1_GraphBeatsFaq ==
    \A k \in 1..Len(resolution) :
        LET r == resolution[k] IN
        (GraphYieldsTargets(r.question) /\ FaqMatches(r.question)) =>
            /\ r.response.source = "knowledge_graph"
            /\ r.response.answers # <<>>
            /\ \A j \in 1..Len(r.lookups) :
                  r.lookups[j] \notin {"cache", "faq_exact", "faq_partial"}

\* the resolution r was answered by the FAQ tier itself, all lookups working
FaqAnswered(r) ==
    /\ r.faults = {}
    /\ r.response.source = "faq"
    /\ ~r.response.from_cache

\* the cache tier answered r with the payload of the response p
CacheAnsweredAs(r, p) ==
    /\ r.response.from_cache
    /\ r.response.answer = p.answer
    /\ r.response.faq_id = p.faq_id
    /\ r.response.category = p.category
    /\ \A j \in 1..Len(r.lookups) : r.lookups[j] \notin {"faq_exact", "faq_partial"}

\* C12: when the FAQ tier has answered q, the cache holds that answer under
\* the trimmed, lower-cased q; and the next resolution, by either entry
\* point, of a question with the same normalized key and no graph match is
\* answered by the cache tier with the same answer, faq_id and category and
\* without an FAQ lookup.
C12_FaqAnswerIsCached ==
    /\ [](\A k \in 1..Len(resolution) :
            FaqAnswered(resolution[k]) =>
                \E e \in cache :
                    /\ e.key = LowerText(Strip(resolution[k].question))
                    /\ e.data.answer = resolution[k].response.answer
                    /\ e.data.faq_id = resolution[k].response.faq_id
                    /\ e.data.category = resolution[k].response.category)
    /\ [][(/\ resolution # <<>>
           /\ resolution' # resolution
           /\ FaqAnswered(resolution[1])
           /\ resolution'[1].faults = {}
           /\ LowerText(Strip(resolution'[1].question))
                 = LowerText(Strip(resolution[1].question))
           /\ ~GraphYieldsTargets(resolution'[1].question))
          => CacheAnsweredAs(resolution'[1], resolution[1].response)]_vars

\* what the FAQ tier caches for some row of the FAQ store
FaqPayloads == {FaqData(FaqRow(store, f)) : f \in 1..Len(store.faqs)}

ReachesRag(r) ==
    /\ ~GraphYieldsTargets(r.question)
    /\ ~FaqMatches(r.question)
    /\ \A e \in cache : e.key # LowerText(Strip(r.question))

\* C14: a resolution, by chat or by process_chat_message, of a question that
\* reaches the RAG tier and whose vector search returns no chunk returns
\* not_found, draws and submits no task and does not call the completion
\* service.
C14_NoChunkIsNotFound ==
    \A k \in 1..Len(resolution) :
        LET r == resolution[k] IN
        (/\ ReachesRag(r)
         /\ r.faults = {}
         /\ r.search \in {"none", "unused"}) =>
            /\ r.search = "none"
            /\ r.response.status = "not_found"
            /\ ~r.drawn
            /\ ~r.submitted
            /\ \A j \in 1..Len(r.lookups) : r.lookups[j] # "llm"

\* C15: a resolution, by chat or by process_chat_message, of a question that
\* reaches the RAG tier with at least one chunk found, whose submission is
\* accepted, returns rag_pending (status processing) for a submitted task,
\* the completion service not having been called.
C15_RagIsHandedOff ==
    \A k \in 1..Len(resolution) :
        LET r == resolution[k] IN
        (/\ ReachesRag(r)
         /\ r.faults = {}
         /\ r.search \in {"some", "unused"}
         /\ ~(r.drawn /\ ~r.submitted)) =>
            /\ r.search = "some"
            /\ r.response.status = "processing"
            /\ r.submitted
            /\ \A j \in 1..Len(r.lookups) : r.lookups[j] # "llm"

\* some tier before the RAG tier answers the question of r
AnsweredBeforeRag(r) ==
    \/ GraphYieldsTargets(r.question)
    \/ FaqMatches(r.question)
    \/ \E e \in cache : e.key = LowerText(Strip(r.question))

\* C16: a resolution, by chat or by process_chat_message, made with a session
\* and a user identifier and with every lookup working appends exactly one
\* chat-history record when the graph, cache or FAQ tier answers and when
\* the RAG tier returns rag_pending.
C16_OneHistoryRecord ==
    \A k \in 1..Len(resolution) :
        LET r == resolution[k] IN
        (/\ r.identified
         /\ r.faults = {}
         /\ AnsweredBeforeRag(r) \/ r.response.status = "processing") =>
            Len(r.saved) = 1

\* C17: in a resolution, by chat or by process_chat_message, that no graph
\* match answers, a failing cache lookup is followed by the FAQ lookup and a
\* failing FAQ lookup by the vector search of the RAG tier; unless the
\* submission of a task fails, the resolution does not end in an error.
C17_LookupFailureIsAMiss ==
    \A k \in 1..Len(resolution) :
        LET r == resolution[k] IN
        (/\ ~GraphYieldsTargets(r.question)
         /\ r.faults # {}
         /\ ~(r.drawn /\ ~r.submitted)) =>
            /\ r.response.source # "error"
            /\ "cache" \in r.faults =>
                  \E j \in 1..Len(r.lookups) : r.lookups[j] \in {"faq_exact", "faq_partial"}
            /\ "faq" \in r.faults =>
                  \E j \in 1..Len(r.lookups) : r.lookups[j] = "vector_search"

(***************************************************************************)
(* Claims about the worker.                                                *)
(***************************************************************************)
\* C18: generate_llm_answer_task is run at most three times for a task, the
\* retries being scheduled 60 and then 120 seconds ahead; a task whose runs
\* have all failed is in permanent failure after the third, and no result
\* is published for a task that is failing or has failed.
C18_RetriesAreBounded ==
    \A t \in Tasks :
        /\ worker[t].attempts <= 3
        /\ worker[t].retries = Len(worker[t].countdowns)
        /\ Len(worker[t].countdowns) <= 2
        /\ \A k \in 1..Len(worker[t].countdowns) :
              worker[t].countdowns[k] = <<60, 120>>[k]
        /\ worker[t].state = "retry" => worker[t].attempts = worker[t].retries
        /\ worker[t].state = "failure" =>
              /\ worker[t].attempts = 3
              /\ worker[t].countdowns = <<60, 120>>
        /\ worker[t].state \in {"retry", "failure"} => published[t] = <<>>

\* a task has failed for good after its third run
C18_Witness ==
    \E t \in Tasks :
        /\ worker[t].state = "failure"
        /\ worker[t].attempts = 3

(***************************************************************************)
(* Further claims about connections and result fan-out.                    *)
(***************************************************************************)
\* C19: the step in which client c disconnects removes c from
\* active_connections and exactly the pending_tasks entries whose value is
\* c, and ends c's subscriber; the handler, subscriber, received messages and
\* socket of every other client are as before, and so are the submitted
\* tasks, the worker and what has been published.
C19_DisconnectTouchesOnlyItsClient ==
    [][\A c \in Clients :
          (handler[c] = "open" /\ handler'[c] = "closed") =>
              /\ active_connections' = active_connections \ {c}
              /\ \A t \in Tasks :
                    pending_tasks'[t] = IF pending_tasks[t] = c THEN NoClient
                                        ELSE pending_tasks[t]
              /\ subscriber'[c] \notin {"created", "subscribed"}
              /\ \A d \in Clients \ {c} :
                    /\ handler'[d] = handler[d]
                    /\ subscriber'[d] = subscriber[d]
                    /\ inbox'[d] = inbox[d]
                    /\ sent'[d] = sent[d]
              /\ queue' = queue
              /\ worker' = worker
              /\ published' = published]_vars

\* c has disconnected with a task of its own still submitted, while another
\* client stays subscribed with a task pending
C19_Witness ==
    \E c \in Clients, d \in Clients :
        /\ c # d
        /\ handler[c] = "closed"
        /\ \E t \in Tasks : [task_id |-> t, client_id |-> c] \in queue
        /\ handler[d] = "open"
        /\ d \in active_connections
        /\ subscriber[d] = "subscribed"
        /\ \E t \in Tasks : pending_tasks[t] = d

\* how many times message occurs in q
Count(q, message) == Cardinality({k \in 1..Len(q) : q[k] = message})

\* the envelopes of task t that were published on the channel of c while c
\* was connected
EnvelopesFor(t, c) ==
    {k \in 1..Len(published[t]) :
        published[t][k].client_id = c /\ published[t][k].connected}

SubmittedFor(c) == [task_id |-> next_task, client_id |-> c] \in queue' \ queue

\* C22: a step of client c's handler that draws a message_id m registers
\* pending_tasks[m] = c whatever apply_async then does; and when the step
\* submits a task, the task is the only one submitted, its task_id is m, and
\* the response written to c's connection is the processing response
\* carrying m.
C22_RegisteredBeforeSubmitted ==
    [][\A c \in Clients :
          LET m == next_task
          IN  /\ (next_task' # next_task /\ sent'[c] # sent[c]) =>
                    /\ pending_tasks'[m] = c
                    /\ next_task' = m + 1
              /\ SubmittedFor(c) =>
                    /\ queue' = queue \cup {[task_id |-> m, client_id |-> c]}
                    /\ pending_tasks'[m] = c
                    /\ sent'[c] = sent[c] \o <<Message("processing", 0),
                                                Message("response", m)>>]_vars

\* a task is with the worker, registered for the client who was told its id
C22_Witness ==
    \E c \in Clients, t \in Tasks :
        /\ [task_id |-> t, client_id |-> c] \in queue
        /\ pending_tasks[t] = c
        /\ Holds(sent[c], Message("response", t))

C24_StalledChunkerFailsDocument ==
    /\ chunk_overlap >= chunk_size =>
          Len(windows) <= 2 * Len(AllTokens(pages_data))
    /\ gen.hit_bound =>
          /\ doc.is_processed # 2
          /\ ing.pc = "done" => doc.is_processed = -1

RECURSIVE CallsUpTo(_, _)
\* the chunk_index values of the first k embedding calls, call after call
CallsUpTo(calls, k) == IF k = 0 THEN <<>> ELSE CallsUpTo(calls, k - 1) \o calls[k]

\* the chunk_index values handed to the embedding service
Embedded == CallsUpTo(embed_calls, Len(embed_calls))

\* ceil(n / BatchSize)
BatchesFor(n) == (n + BatchSize - 1) \div BatchSize

\* C25: a document that ends completed after its chunker yielded n >= 1
\* chunks (so that no embedding or insert call failed) has had exactly
\* ceil(n / 5) embedding calls; every call but the last held exactly 5
\* chunks and the last between 1 and 5; the calls taken one after the other
\* are the yielded chunks in order, none twice and none skipped; and each
\* call was followed by one insert, of the records of exactly its chunks.
C25_BatchesPartitionChunks ==
    /\ []((doc.is_processed = 2 /\ Len(yielded) >= 1) =>
            /\ Len(embed_calls) = BatchesFor(Len(yielded))
            /\ \A b \in 1..Len(embed_calls) - 1 : Len(embed_calls[b]) = BatchSize
            /\ Len(embed_calls[Len(embed_calls)]) \in 1..BatchSize
            /\ Embedded = [k \in 1..Len(yielded) |-> yielded[k].chunk_index]
            /\ \A j, k \in 1..Len(Embedded) : j # k => Embedded[j] # Embedded[k]
            /\ [k \in 1..Len(milvus) |-> milvus[k].chunk_index] = Embedded)
    /\ [][milvus' # milvus =>
            /\ Len(embed_calls') = Len(embed_calls) + 1
            /\ Len(milvus') = Len(milvus) + Len(embed_calls'[Len(embed_calls')])
            /\ \A k \in 1..Len(milvus) : milvus'[k] = milvus[k]
            /\ \A k \in 1..Len(embed_calls'[Len(embed_calls')]) :
                  milvus'[Len(milvus) + k].chunk_index = embed_calls'[Len(embed_calls')][k]]_vars

\* a completed document of three batches, the last one partial
C25_Witness ==
    /\ doc.is_processed = 2
    /\ Len(embed_calls) = 3
    /\ Len(embed_calls[3]) < BatchSize
    /\ Len(yielded) = 2 * BatchSize + Len(embed_calls[3])
    /\ Len(milvus) = Len(yielded)

\* the chunk_index values of the records in the vector store, in the order
\* they were inserted
Stored == [k \in 1..Len(milvus) |-> milvus[k].chunk_index]

\* C26: the records in the vector store are in strictly increasing
\* chunk_index and are the first chunks the chunker yielded; while the loop
\* runs every full batch of the chunks pulled so far has been embedded and
\* inserted, so no chunk beyond batch k is asked for before batch k is
\* inserted; and a batch is embedded only when every batch embedded before
\* it has been inserted.
C26_BatchesInChunkOrder ==
    /\ [](/\ \A j, k \in 1..Len(Stored) : j < k => Stored[j] < Stored[k]
          /\ Len(Stored) <= Len(yielded)
          /\ \A k \in 1..Len(Stored) : Stored[k] = yielded[k].chunk_index)
    /\ [](ing.pc = "chunking" =>
            /\ Len(embed_calls) = Len(yielded) \div BatchSize
            /\ Len(milvus) = BatchSize * (Len(yielded) \div BatchSize)
            /\ Len(ing.chunk_batch) = Len(yielded) % BatchSize)
    /\ [][embed_calls' # embed_calls =>
            /\ Stored = Embedded
            /\ Len(embed_calls') = Len(embed_calls) + 1
            /\ \A k \in 1..Len(embed_calls'[Len(embed_calls')]) :
                  embed_calls'[Len(embed_calls')][k] = yielded'[Len(Embedded) + k].chunk_index]_vars

\* two batches are in the vector store and the chunks of the third are
\* being pulled
C26_Witness ==
    /\ ing.pc = "chunking"
    /\ Len(embed_calls) = 2
    /\ Len(milvus) = 2 * BatchSize
    /\ ing.chunk_batch # <<>>
    /\ Len(yielded) > Len(milvus)

(***************************************************************************)
(* Further claims about the resolver.                                      *)
(***************************************************************************)
\* what each entry point returns for question in the present state of the
\* graph store, the cache and the FAQ store, every lookup working
RestOutcome(question, identified) ==
    chat(store, cache, pending_tasks, question, identified, "some", {})

WsOutcome(question, identified) ==
    process_chat_message(store, cache, pending_tasks, question, identified, NoClient,
                         "some", "queued", next_task, {})

\* the graph tier, the cache tier or the FAQ tier answered
TierAnswered(r) ==
    /\ r.response.success
    /\ r.response.source \in {"knowledge_graph", "faq"}

\* C27: for every question and every state of the graph store, the cache
\* and the FAQ store in which one of the tiers before RAG answers in either
\* resolver, chat and process_chat_message answer from the same tier with
\* the same target nodes, or the same FAQ answer and faq_id.
C27_ResolversAgree ==
    \A q \in Questions, i \in BOOLEAN :
        LET rest == RestOutcome(q, i)
            ws == WsOutcome(q, i)
        IN  (TierAnswered(rest) \/ TierAnswered(ws)) =>
                /\ TierAnswered(rest)
                /\ TierAnswered(ws)
                /\ rest.response.source = ws.response.source
                /\ rest.response.from_cache = ws.response.from_cache
                /\ rest.response.answers = ws.response.answers
                /\ rest.response.answer = ws.response.answer
                /\ rest.response.faq_id = ws.response.faq_id

C29_PendingOnlyForSubmitted ==
    \A t \in Tasks :
        pending_tasks[t] # NoClient =>
            [task_id |-> t, client_id |-> pending_tasks[t]] \in queue

====
